---- MODULE Spec2Model ----
(***************************************************************************)
(* Favorites store of the icon search application: the useFavorites hook,  *)
(* the search results view and the favorites view, each keeping a set of   *)
(* favorite identifiers and a list of favorite records in React state and  *)
(* mirroring both to the localStorage keys iconFavorites and               *)
(* favoriteIconsData.                                                      *)
(*                                                                         *)
(* React state is modelled per component as the committed value (what the  *)
(* last render saw, and what handler closures capture), the value the next *)
(* render will commit (updates already computed) and the queue of updater  *)
(* functions not yet run.  An updater dispatched while the component has   *)
(* no pending update may be run at once (React's eager state) or queued;   *)
(* a render runs the queue in order and commits.                           *)
(***************************************************************************)
EXTENDS Integers, Sequences, FiniteSets, TLC

VARIABLES
  stIds,      \* localStorage['iconFavorites']
  stData,     \* localStorage['favoriteIconsData']
  now,        \* Date.now()
  thrown,     \* an exception escaped a handler, an effect or an updater
  ev,         \* the last call: who, op, id, icon, what it did, write outcome
  fails,      \* how many saves have met a throwing setItem
  hMounted,   \* useFavorites: the load effect has run
  hFav,       \* useFavorites: favorites, committed
  hIcons,     \* useFavorites: favoriteIcons, committed
  hNextFav,   \* useFavorites: favorites after the updates already computed
  hNextIcons, \* useFavorites: favoriteIcons after the updates already computed
  hPend,      \* useFavorites: setFavorites updaters not yet run
  sMounted,   \* search view: the load effect has run
  sIsClient,  \* search view: isClient, committed
  sIcons,     \* search view: icons, committed (the cards on display)
  sNewIcons,  \* search view: a setIcons(...) value not yet rendered
  sFav,       \* search view: favorites, committed
  sFavIcons,  \* search view: favoriteIcons, committed
  sNextFav,   \* search view: favorites after the updates already computed
  sNextFavIcons, \* search view: favoriteIcons after the updates already computed
  sPend,      \* search view: setFavorites updaters not yet run
  fMounted,   \* favorites view: loadFavorites has run on mount
  fFav,       \* favorites view: favorites, committed
  fIcons,     \* favorites view: favoriteIcons, committed (the cards on display)
  fNextFav,   \* favorites view: favorites as last set
  fNextIcons, \* favorites view: favoriteIcons as last set
  sQuery,     \* search view: searchParams.get('q')
  sLoading,   \* search view: loading
  sError,     \* search view: error
  sInflight,  \* search view: the fetches not yet settled
  sIssued,    \* search view: how many fetches the effect has issued
  sSettled,   \* search view: the outcome of the fetch settled last
  sResultsFor, \* search view: the query of the fetch whose icons were stored last
  fEvents,    \* favorites view: storage events dispatched to its window, unhandled
  gMounted,   \* a second component using useFavorites: its load effect has run
  gFav,       \* the second component: favorites
  gIcons,     \* the second component: favoriteIcons
  lQuery,     \* landing page: query, the text of the search box
  route,      \* the router: the page on display and its q parameter
  pPhase,     \* proxy route: idle, awaiting the upstream, or done
  pReq,       \* proxy route: the q parameter and the configured credential
  pUp,        \* proxy route: what the upstream fetch settled with
  pRes,       \* proxy route: the response of GET, or the exception it threw
  pCalls,     \* proxy route: upstream requests issued
  pServed     \* proxy route: requests handled

storeVars == <<stIds, stData>>
hookVars == <<hMounted, hFav, hIcons, hNextFav, hNextIcons, hPend>>
searchVars == <<sMounted, sIsClient, sIcons, sNewIcons, sFav, sFavIcons,
                sNextFav, sNextFavIcons, sPend>>
favVars == <<fMounted, fFav, fIcons, fNextFav, fNextIcons>>
fetchVars == <<sQuery, sLoading, sError, sInflight, sIssued, sSettled, sResultsFor>>
proxyVars == <<pPhase, pReq, pUp, pRes, pCalls, pServed>>
guestVars == <<gMounted, gFav, gIcons>>
tabVars == <<fEvents, gMounted, gFav, gIcons>>
homeVars == <<lQuery, route>>
vars == <<stIds, stData, now, thrown, ev, fails, hookVars, searchVars, favVars,
          fetchVars, proxyVars, tabVars, homeVars>>

\* ---------------------------------------------------------------- bounds
MaxFav == 2
MaxPend == 2
MaxNow == 1
MaxFail == 1
MaxReq == 2
MaxServed == 2
MaxEvents == 2    \* storage events waiting in the favorites view's window
MaxChars == 2     \* characters typed in the landing page's search box

\* ------------------------------------------------------------ icon records
\* IconData.id is string | number and may be missing at run time.
NoId == [t |-> "none", n |-> 0, s |-> ""]
NumId(n) == [t |-> "num", n |-> n, s |-> ""]
StrId(s) == [t |-> "str", n |-> 0, s |-> s]

IconSun == [id |-> StrId("a"), name |-> "sun", tags |-> <<"sky">>]
IconZero == [id |-> NumId(0), name |-> "moon", tags |-> <<>>]
IconCat == [id |-> NoId, name |-> "cat", tags |-> <<"pet">>]
IconBlank == [id |-> StrId(""), name |-> "", tags |-> <<>>]

Catalog == {IconSun, IconZero, IconCat, IconBlank}
\* where a call takes no icon
NoIcon == [id |-> NoId, name |-> "-", tags |-> <<>>]

\* A JavaScript value that is a string or undefined.
Undefined == [def |-> FALSE, s |-> ""]
Str(s) == [def |-> TRUE, s |-> s]
Falsy(v) == ~v.def \/ v.s = ""
OrElse(v, fallback) == IF Falsy(v) THEN fallback ELSE v.s

\* icon.id?.toString()
IdToString(icon) ==
  CASE icon.id.t = "none" -> Undefined
    [] icon.id.t = "num" -> Str(ToString(icon.id.n))
    [] OTHER -> Str(icon.id.s)

\* if (icon.id): undefined, 0 and '' are falsy
IdTruthy(icon) ==
  \/ icon.id.t = "num" /\ icon.id.n # 0
  \/ icon.id.t = "str" /\ icon.id.s # ""

\* icon.name || 'unknown'
NameOr(icon) == OrElse(Str(icon.name), "unknown")
\* icon.tags?.[0] || 'notag'
TagOr(icon) ==
  OrElse(IF Len(icon.tags) > 0 THEN Str(icon.tags[1]) ELSE Undefined, "notag")

\* ------------------------------------------------- Set<string>, in insertion order
Has(set, x) == \E i \in DOMAIN set : set[i] = x
SetAdd(set, x) == IF Has(set, x) THEN set ELSE Append(set, x)
SetDelete(set, x) == SelectSeq(set, LAMBDA e : e # x)

RECURSIVE NewSet(_)
\* new Set(array): the first occurrence of each element, in order
NewSet(arr) ==
  IF arr = <<>> THEN <<>>
  ELSE SetAdd(NewSet(SubSeq(arr, 1, Len(arr) - 1)), arr[Len(arr)])

\* ------------------------------------------------------------ localStorage
\* A key holds nothing (getItem returns null), a JSON array, or a non-empty
\* string that JSON.parse rejects.
Null == [k |-> "null", v |-> <<>>]
Malformed == [k |-> "bad", v |-> <<>>]
\* JSON.stringify of an array
Stringify(arr) == [k |-> "json", v |-> arr]

\* setItem may throw (quota exceeded, storage disabled): both writes succeed,
\* the first throws, or the first succeeds and the second throws.
Outcomes == {"ok", "fail1", "fail2"}

\* the second setItem forgotten
SetItemsIdsOnly(newFavorites, newIconsData, w, ids, data) ==
  [ids |-> IF w = "fail1" THEN ids ELSE Stringify(newFavorites), data |-> data]

\* localStorage.setItem('iconFavorites', ...); localStorage.setItem('favoriteIconsData', ...)
SetItems(newFavorites, newIconsData, w, ids, data) ==
  [ids |-> IF w = "fail1" THEN ids ELSE Stringify(newFavorites),
   data |-> IF w = "ok" THEN Stringify(newIconsData) ELSE data]

Failed(w) == IF w = "ok" THEN 0 ELSE 1

\* the state an updater runs on: the component's state and the two keys
RunState(fav, icons) ==
  [fav |-> fav, icons |-> icons, ids |-> stIds, data |-> stData,
   threw |-> FALSE, w |-> "none", did |-> "none", nf |-> 0, idle |-> FALSE]

\* ev after a call: w is "queued" while its updater has not run
Called(who, op, id, icon, did, w) ==
  [who |-> who, op |-> op, id |-> id, icon |-> icon, did |-> did, w |-> w,
   phase |-> "call"]
\* ev after a render of component who that ran queue q with result r
Rendered(who, q, r) ==
  IF ev.who = who /\ ev.w = "queued" /\ q # <<>>
  THEN [ev EXCEPT !.did = r.did, !.w = r.w, !.phase = "render"]
  ELSE IF ev.who = who THEN [ev EXCEPT !.phase = "render"]
  ELSE [who |-> who, op |-> "render", id |-> "", icon |-> NoIcon, did |-> "none",
        w |-> "none", phase |-> "render"]

\* ------------------------------------------------------------ useFavorites
\* saveFavoritesToStorage without the try/catch
HookSaveNoCatch(newFavorites, newIconsData, w, ids, data) ==
  [st |-> SetItems(newFavorites, newIconsData, w, ids, data), threw |-> w # "ok"]

\* saveFavoritesToStorage: the writes inside try/catch, the error logged
HookSave(newFavorites, newIconsData, w, ids, data) ==
  [st |-> SetItems(newFavorites, newIconsData, w, ids, data), threw |-> FALSE]

\* the load effect: each key is read, parsed and set in turn inside one try
HookLoadFav(ids, cur) == IF ids.k = "json" THEN NewSet(ids.v) ELSE cur
HookLoadIcons(ids, data, cur) ==
  IF ids.k # "bad" /\ data.k = "json" THEN data.v ELSE cur

\* addFavorite without the has() test
HookAddAlways(favorites, iconId) == TRUE

\* if (!newFavorites.has(iconId)) of addFavorite
HookAddNeeded(favorites, iconId) == ~Has(favorites, iconId)

\* the filter comparing the raw id with the string: icon.id !== iconId
HookKeepRaw(icon, iconId) == icon.id # StrId(iconId)

\* the filter of removeFavorite: icon.id?.toString() !== iconId
HookKeep(icon, iconId) == IdToString(icon) # Str(iconId)

\* One setFavorites updater of addFavorite / removeFavorite, with the
\* setFavoriteIcons updater it dispatches, run on state s = [fav, icons, ids,
\* data, threw, w, did, nf, idle]; u = [op, id, icon]; w is the outcome of the
\* writes (nf counts the saves that failed, idle tells that an outcome other
\* than "ok" was drawn for an updater that wrote nothing).
HookUpdater(s, u, w) ==
  IF u.op = "add" /\ HookAddNeeded(s.fav, u.id) THEN
    LET newFavorites == Append(s.fav, u.id)
        updatedIcons == Append(s.icons, u.icon)
        sv == HookSave(newFavorites, updatedIcons, w, s.ids, s.data)
    IN  [s EXCEPT !.fav = newFavorites, !.icons = updatedIcons, !.ids = sv.st.ids,
                  !.data = sv.st.data, !.threw = s.threw \/ sv.threw, !.w = w,
                  !.did = "add", !.nf = s.nf + Failed(w)]
  ELSE IF u.op = "remove" /\ Has(s.fav, u.id) THEN
    LET newFavorites == SetDelete(s.fav, u.id)
        updatedIcons == SelectSeq(s.icons, LAMBDA ic : HookKeep(ic, u.id))
        sv == HookSave(newFavorites, updatedIcons, w, s.ids, s.data)
    IN  [s EXCEPT !.fav = newFavorites, !.icons = updatedIcons, !.ids = sv.st.ids,
                  !.data = sv.st.data, !.threw = s.threw \/ sv.threw, !.w = w,
                  !.did = "remove", !.nf = s.nf + Failed(w)]
  ELSE [s EXCEPT !.w = "none", !.did = "none", !.idle = s.idle \/ w # "ok"]

RECURSIVE HookRun(_, _, _)
\* the updaters of queue q run in order, ws[i] the outcome of the i-th one's writes
HookRun(s, q, ws) ==
  IF q = <<>> THEN s
  ELSE HookRun(HookUpdater(s, Head(q), Head(ws)), Tail(q), Tail(ws))

HookState == RunState(hNextFav, hNextIcons)

HookIdle == hPend = <<>> /\ hNextFav = hFav /\ hNextIcons = hIcons

\* setFavorites(updater): run at once when nothing is pending (eager), or queued
HookDispatch(u, call) ==
  /\ \/ /\ HookIdle
        /\ \E w \in Outcomes :
             LET r == HookUpdater(HookState, u, w) IN
             /\ ~r.idle /\ fails + r.nf <= MaxFail
             /\ fails' = fails + r.nf
             /\ hNextFav' = r.fav
             /\ hNextIcons' = r.icons
             /\ stIds' = r.ids
             /\ stData' = r.data
             /\ thrown' = (thrown \/ r.threw)
             /\ ev' = Called("hook", call, u.id, u.icon, r.did, r.w)
        /\ UNCHANGED <<hPend, hFav, hIcons>>
     \/ /\ Len(hPend) < MaxPend
        /\ hPend' = Append(hPend, u)
        /\ ev' = Called("hook", call, u.id, u.icon, "none", "queued")
        /\ UNCHANGED <<hNextFav, hNextIcons, hFav, hIcons, stIds, stData, thrown,
                       fails>>
  /\ UNCHANGED <<hMounted, now, searchVars, favVars>>

\* a call that returns at "if (!iconId) return"
HookIgnore(call, icon) ==
  /\ ev' = Called("hook", call, "", icon, "none", "none")
  /\ UNCHANGED <<stIds, stData, now, thrown, fails, hookVars, searchVars, favVars>>

NoPageMounted == ~hMounted /\ ~sMounted /\ ~fMounted

\* useEffect(() => { ...load... }, [])
HookMount ==
  /\ NoPageMounted
  /\ hMounted' = TRUE
  /\ hNextFav' = HookLoadFav(stIds, hNextFav)
  /\ hNextIcons' = HookLoadIcons(stIds, stData, hNextIcons)
  /\ ev' = Called("hook", "load", "", NoIcon, "none", "none")
  /\ UNCHANGED <<stIds, stData, now, thrown, fails, hFav, hIcons, hPend,
                 searchVars, favVars>>

\* addFavorite(icon)
HookAdd(icon) ==
  /\ hMounted
  /\ Len(hNextIcons) + Len(hPend) < MaxFav
  /\ LET iconId == IdToString(icon) IN
     IF Falsy(iconId) THEN HookIgnore("add", icon)
     ELSE HookDispatch([op |-> "add", id |-> iconId.s, icon |-> icon], "add")

\* removeFavorite(iconId)
HookRemove(iconId) ==
  /\ hMounted
  /\ HookDispatch([op |-> "remove", id |-> iconId, icon |-> NoIcon], "remove")

\* toggleFavorite(icon): favorites is the committed value the callback closed over
HookToggle(icon) ==
  /\ hMounted
  /\ LET iconId == IdToString(icon) IN
     IF Falsy(iconId) THEN HookIgnore("toggle", icon)
     ELSE IF Has(hFav, iconId.s) THEN
       HookDispatch([op |-> "remove", id |-> iconId.s, icon |-> NoIcon], "toggle")
     ELSE
       /\ Len(hNextIcons) + Len(hPend) < MaxFav
       /\ HookDispatch([op |-> "add", id |-> iconId.s, icon |-> icon], "toggle")

\* a render of the component using the hook: the queued updaters run, the
\* state is committed
HookRender ==
  /\ hMounted
  /\ ~HookIdle
  /\ \E ws \in [1 .. Len(hPend) -> Outcomes] :
       LET r == HookRun(HookState, hPend, ws) IN
       /\ ~r.idle /\ fails + r.nf <= MaxFail
       /\ fails' = fails + r.nf
       /\ hFav' = r.fav
       /\ hIcons' = r.icons
       /\ hNextFav' = r.fav
       /\ hNextIcons' = r.icons
       /\ stIds' = r.ids
       /\ stData' = r.data
       /\ thrown' = (thrown \/ r.threw)
       /\ ev' = Rendered("hook", hPend, r)
  /\ hPend' = <<>>
  /\ UNCHANGED <<hMounted, now, searchVars, favVars>>

\* the list searched by raw id instead of the set
IsFavoriteIcons(iconId) == \E i \in DOMAIN hIcons : hIcons[i].id = StrId(iconId)

\* isFavorite(iconId): favorites is the value of the last render
IsFavorite(iconId) == Has(hFav, iconId)

\* getFavoriteCount()
GetFavoriteCount == Len(hFav)

\* the component using the hook unmounts (navigation, reload): its state is gone
HookUnmount ==
  /\ hMounted
  /\ hMounted' = FALSE
  /\ hFav' = <<>> /\ hIcons' = <<>> /\ hNextFav' = <<>> /\ hNextIcons' = <<>>
  /\ hPend' = <<>>
  /\ ev' = Called("hook", "unmount", "", NoIcon, "none", "none")
  /\ UNCHANGED <<stIds, stData, now, thrown, fails, searchVars, favVars>>

\* ------------------------------------------------------------- search view
\* favIcon.id?.toString() || `icon_${favIcon.name || 'unknown'}_${favIcon.tags?.[0] || 'notag'}`
FavIconId(favIcon) ==
  OrElse(IdToString(favIcon), "icon_" \o NameOr(favIcon) \o "_" \o TagOr(favIcon))

\* getIconId(icon, index), the same function on the search and the favorites view
GetIconId(icon, index) ==
  IF IdTruthy(icon) THEN IdToString(icon).s
  ELSE "icon_" \o NameOr(icon) \o "_" \o TagOr(icon) \o "_" \o ToString(index)

\* the identifier handleToggleFavorite uses, at time t
ToggleId(icon, t) ==
  LET iconId == IdToString(icon) IN
  IF Falsy(iconId)
  THEN "icon_" \o NameOr(icon) \o "_" \o TagOr(icon) \o "_" \o ToString(t)
  ELSE iconId.s

\* the generated id not stored on the record
ToggleIconKept(icon, iconId) == icon

\* icon.id = iconId when the id was generated: the card object itself changes
ToggleIcon(icon, iconId) ==
  IF Falsy(IdToString(icon)) THEN [icon EXCEPT !.id = StrId(iconId)] ELSE icon

\* saveFavoritesToStorage of the search view
SearchSave(newFavorites, newIconsData, isClient, w, ids, data) ==
  IF ~isClient THEN [st |-> [ids |-> ids, data |-> data], threw |-> FALSE]
  ELSE [st |-> SetItems(newFavorites, newIconsData, w, ids, data), threw |-> FALSE]

\* The setFavorites updater of handleToggleFavorite run on s = [fav, icons, ids,
\* data, threw, w]; u = [id, icon, closure, isClient], closure the favoriteIcons
\* value the handler closed over.
SearchUpdater(s, u, w) ==
  LET had == Has(s.fav, u.id)
      newFavorites == IF had THEN SetDelete(s.fav, u.id) ELSE Append(s.fav, u.id)
      iconExists == \E i \in DOMAIN u.closure : FavIconId(u.closure[i]) = u.id
      newIconsData ==
        IF had THEN SelectSeq(u.closure, LAMBDA favIcon : FavIconId(favIcon) # u.id)
        ELSE IF ~iconExists THEN Append(u.closure, u.icon)
        ELSE u.closure
      sv == SearchSave(newFavorites, newIconsData, u.isClient, w, s.ids, s.data)
  IN  [s EXCEPT !.fav = newFavorites, !.icons = newIconsData, !.ids = sv.st.ids,
                !.data = sv.st.data, !.threw = s.threw \/ sv.threw,
                !.w = IF u.isClient THEN w ELSE "none",
                !.did = IF had THEN "remove" ELSE "add",
                !.nf = s.nf + (IF u.isClient THEN Failed(w) ELSE 0),
                !.idle = s.idle \/ (~u.isClient /\ w # "ok")]

RECURSIVE SearchRun(_, _, _)
SearchRun(s, q, ws) ==
  IF q = <<>> THEN s
  ELSE SearchRun(SearchUpdater(s, Head(q), Head(ws)), Tail(q), Tail(ws))

SearchState == RunState(sNextFav, sNextFavIcons)

NoNewIcons == [pending |-> FALSE, v |-> <<>>]

SearchIdle ==
  /\ sPend = <<>> /\ sNextFav = sFav /\ sNextFavIcons = sFavIcons
  /\ ~sNewIcons.pending /\ sIsClient

\* isFavorite(iconId) of the search view, on the favorites of the last render
SearchIsFavorite(iconId) == Has(sFav, iconId)

\* the load of the first useEffect: each key read, parsed and set in turn
\* inside one try
SearchLoadFav(ids, cur) == IF ids.k = "json" THEN NewSet(ids.v) ELSE cur
SearchLoadIcons(ids, data, cur) ==
  IF ids.k # "bad" /\ data.k = "json" THEN data.v ELSE cur

\* the first useEffect: setIsClient(true) and the load
SearchMount ==
  /\ NoPageMounted
  /\ sMounted' = TRUE
  /\ sNextFav' = SearchLoadFav(stIds, sNextFav)
  /\ sNextFavIcons' = SearchLoadIcons(stIds, stData, sNextFavIcons)
  /\ ev' = Called("search", "load", "", NoIcon, "none", "none")
  /\ UNCHANGED <<stIds, stData, now, thrown, fails, sIsClient, sIcons, sNewIcons, sFav,
                 sFavIcons, sPend, hookVars, favVars>>

\* .then((data) => { setIcons(data.icons || []); ... })
SearchReceive(payload) ==
  /\ sMounted
  /\ sNewIcons' = [pending |-> TRUE, v |-> payload]
  /\ ev' = Called("search", "icons", "", NoIcon, "none", "none")
  /\ UNCHANGED <<stIds, stData, now, thrown, fails, sMounted, sIsClient, sIcons, sFav,
                 sFavIcons, sNextFav, sNextFavIcons, sPend, hookVars, favVars>>

\* handleToggleFavorite(icon, e) for the card at position i of the rendered icons
SearchToggle(i) ==
  /\ sMounted
  /\ i \in DOMAIN sIcons
  /\ LET iconId == ToggleId(sIcons[i], now)
         icon == ToggleIcon(sIcons[i], iconId)
         u == [id |-> iconId, icon |-> icon, closure |-> sFavIcons,
               isClient |-> sIsClient]
     IN
     /\ \/ Len(sNextFav) + Len(sPend) < MaxFav
        \/ sPend = <<>> /\ Has(sNextFav, iconId)
     /\ sIcons' = [sIcons EXCEPT ![i] = icon]
     /\ \/ /\ SearchIdle
           /\ \E w \in Outcomes :
                LET r == SearchUpdater(SearchState, u, w) IN
                /\ ~r.idle /\ fails + r.nf <= MaxFail
                /\ fails' = fails + r.nf
                /\ sNextFav' = r.fav
                /\ sNextFavIcons' = r.icons
                /\ stIds' = r.ids
                /\ stData' = r.data
                /\ thrown' = (thrown \/ r.threw)
                /\ ev' = Called("search", "toggle", iconId, icon, r.did, r.w)
           /\ UNCHANGED sPend
        \/ /\ Len(sPend) < MaxPend
           /\ sPend' = Append(sPend, u)
           /\ ev' = Called("search", "toggle", iconId, icon, "none", "queued")
           /\ UNCHANGED <<sNextFav, sNextFavIcons, stIds, stData, thrown, fails>>
  /\ UNCHANGED <<now, sMounted, sIsClient, sNewIcons, sFav, sFavIcons, hookVars,
                 favVars>>

\* a render of SearchContent: the queued updaters run, the state is committed
SearchRender ==
  /\ sMounted
  /\ ~SearchIdle
  /\ \E ws \in [1 .. Len(sPend) -> Outcomes] :
       LET r == SearchRun(SearchState, sPend, ws) IN
       /\ ~r.idle /\ fails + r.nf <= MaxFail
       /\ fails' = fails + r.nf
       /\ sFav' = r.fav
       /\ sFavIcons' = r.icons
       /\ sNextFav' = r.fav
       /\ sNextFavIcons' = r.icons
       /\ stIds' = r.ids
       /\ stData' = r.data
       /\ thrown' = (thrown \/ r.threw)
       /\ ev' = Rendered("search", sPend, r)
  /\ sPend' = <<>>
  /\ sIsClient' = TRUE
  /\ sIcons' = IF sNewIcons.pending THEN sNewIcons.v ELSE sIcons
  /\ sNewIcons' = NoNewIcons
  /\ UNCHANGED <<sMounted, now, hookVars, favVars>>

SearchUnmount ==
  /\ sMounted
  /\ sMounted' = FALSE
  /\ sIsClient' = FALSE
  /\ sIcons' = <<>> /\ sNewIcons' = NoNewIcons
  /\ sFav' = <<>> /\ sFavIcons' = <<>> /\ sNextFav' = <<>> /\ sNextFavIcons' = <<>>
  /\ sPend' = <<>>
  /\ ev' = Called("search", "unmount", "", NoIcon, "none", "none")
  /\ UNCHANGED <<stIds, stData, now, thrown, fails, hookVars, favVars>>

\* Date.now() advances
Tick ==
  /\ now < MaxNow
  /\ now' = now + 1
  /\ UNCHANGED <<stIds, stData, thrown, fails, ev, hookVars, searchVars, favVars>>

\* ---------------------------------------------------------- favorites view
\* loadFavorites: both keys are read and parsed before either state is set
FavLoadOk(ids, data) == ids.k # "bad" /\ data.k # "bad"
FavLoadFav(ids, data, cur) ==
  IF FavLoadOk(ids, data) THEN NewSet(IF ids.k = "json" THEN ids.v ELSE <<>>)
  ELSE cur
\* the list left as it is by a load
FavLoadIconsKept(ids, data, cur) == cur
FavLoadIcons(ids, data, cur) ==
  IF FavLoadOk(ids, data) THEN (IF data.k = "json" THEN data.v ELSE <<>>)
  ELSE cur

\* useEffect(() => { loadFavorites(); }, [])
FavMount ==
  /\ NoPageMounted
  /\ fMounted' = TRUE
  /\ fNextFav' = FavLoadFav(stIds, stData, fNextFav)
  /\ fNextIcons' = FavLoadIcons(stIds, stData, fNextIcons)
  /\ ev' = Called("fav", "load", "", NoIcon, "none", "none")
  /\ UNCHANGED <<stIds, stData, now, thrown, fails, fFav, fIcons, hookVars, searchVars>>

\* removeFavorite(iconId) of the favorites view: favorites and favoriteIcons are
\* the committed values the function closed over; the writes come last, inside
\* the try, and a failure is logged
FavRemove(iconId, w) ==
  LET newFavorites == SetDelete(fFav, iconId)
      updatedIcons == SelectSeq(fIcons, LAMBDA icon : FavIconId(icon) # iconId)
      st == SetItems(newFavorites, updatedIcons, w, stIds, stData)
  IN  /\ fNextFav' = newFavorites
      /\ fNextIcons' = updatedIcons
      /\ stIds' = st.ids
      /\ stData' = st.data
      /\ thrown' = thrown
      /\ fails + Failed(w) <= MaxFail
      /\ fails' = fails + Failed(w)
      /\ ev' = Called("fav", "remove", iconId, NoIcon, "remove", w)
      /\ UNCHANGED <<now, fMounted, fFav, fIcons, hookVars, searchVars>>

\* the remove button of the card at position i: removeFavorite(getIconId(icon, index))
FavRemoveClick(i) ==
  /\ fMounted
  /\ i \in DOMAIN fIcons
  /\ \E w \in Outcomes : FavRemove(GetIconId(fIcons[i], i - 1), w)

\* a render of FavoritesPage
FavRender ==
  /\ fMounted
  /\ fFav # fNextFav \/ fIcons # fNextIcons
  /\ fFav' = fNextFav
  /\ fIcons' = fNextIcons
  /\ ev' = Rendered("fav", <<>>, ev)
  /\ UNCHANGED <<stIds, stData, now, thrown, fails, fMounted, fNextFav, fNextIcons,
                 hookVars, searchVars>>

FavUnmount ==
  /\ fMounted
  /\ fMounted' = FALSE
  /\ fFav' = <<>> /\ fIcons' = <<>> /\ fNextFav' = <<>> /\ fNextIcons' = <<>>
  /\ ev' = Called("fav", "unmount", "", NoIcon, "none", "none")
  /\ UNCHANGED <<stIds, stData, now, thrown, fails, hookVars, searchVars>>

\* -------------------------------------------------------------------- JSON
\* The JSON values at play: null, an object without icons field, an object
\* with an icons array, an error payload.
JsonNull == [obj |-> FALSE, hasIcons |-> FALSE, icons |-> <<>>, error |-> ""]
JsonObject == [obj |-> TRUE, hasIcons |-> FALSE, icons |-> <<>>, error |-> ""]
JsonIcons(icons) == [obj |-> TRUE, hasIcons |-> TRUE, icons |-> icons, error |-> ""]
JsonError(msg) == [obj |-> TRUE, hasIcons |-> FALSE, icons |-> <<>>, error |-> msg]

\* the icons arrays the upstream API answers with
Payloads == {<<IconZero, IconCat>>}
ErrorMessages == {"Missing query or API key", "Failed to fetch icons"}
JsonValues ==
  {JsonNull, JsonObject, JsonIcons(<<>>)} \cup {JsonIcons(p) : p \in Payloads}
    \cup {JsonError(m) : m \in ErrorMessages}

IconText(icon) ==
  "{" \o (CASE icon.id.t = "none" -> ""
            [] icon.id.t = "num" -> "\"id\":" \o ToString(icon.id.n) \o ","
            [] OTHER -> "\"id\":\"" \o icon.id.s \o "\",")
      \o "\"name\":\"" \o icon.name \o "\"}"

RECURSIVE IconsText(_)
IconsText(icons) ==
  IF icons = <<>> THEN ""
  ELSE IF Len(icons) = 1 THEN IconText(icons[1])
  ELSE IconText(icons[1]) \o "," \o IconsText(Tail(icons))

\* JSON.stringify(value), as NextResponse.json does
JsonStringify(v) ==
  IF ~v.obj THEN "null"
  ELSE IF v.error # "" THEN "{\"error\":\"" \o v.error \o "\"}"
  ELSE IF ~v.hasIcons THEN "{}"
  ELSE "{\"icons\":[" \o IconsText(v.icons) \o "]}"

\* the same object as JSON.stringify writes it, with white space
SpacedEmpty == "{ \"icons\" : [ ] }"
NotJson == "<html>"

\* res.json(): the value, or a rejection when the text is not JSON
JsonParse(text) ==
  IF \E v \in JsonValues : JsonStringify(v) = text
  THEN [ok |-> TRUE, v |-> CHOOSE v \in JsonValues : JsonStringify(v) = text]
  ELSE IF text = SpacedEmpty THEN [ok |-> TRUE, v |-> JsonIcons(<<>>)]
  ELSE [ok |-> FALSE, v |-> JsonNull]

\* only 200 counted as success
ResOkOnly200(status) == status = 200

\* res.ok
ResOk(status) == status \in 200 .. 299

\* ------------------------------------------------------------- proxy route
\* searchParams.get('q'): null, '' or a query
Queries == {Undefined, Str(""), Str("cat")}
\* process.env.ICONFINDER_API_KEY
ApiKeys == {Undefined, Str(""), Str("key")}

\* what the upstream fetch settles with: a rejection, or a response
UpStatuses == {200, 201, 400, 401, 404, 429, 500, 503}
UpBodies == {"{}", "null", SpacedEmpty, NotJson}
              \cup {JsonStringify(JsonIcons(p)) : p \in Payloads}
Rejected == [kind |-> "reject", status |-> 0, body |-> ""]
Upstreams ==
  {Rejected} \cup {[kind |-> "response", status |-> s, body |-> b] :
                     s \in UpStatuses, b \in UpBodies}

NoResponse == [kind |-> "none", status |-> 0, body |-> ""]
\* GET rejects: the exception leaves the handler
Escaped == [kind |-> "throw", status |-> 0, body |-> ""]
\* NextResponse.json(value, { status })
NextResponseJson(v, status) == [kind |-> "json", status |-> status, body |-> JsonStringify(v)]

\* the credential not tested
ProxyMissingQuery(query, apiKey) == Falsy(query)

\* if (!query || !API_KEY)
ProxyMissing(query, apiKey) == Falsy(query) \/ Falsy(apiKey)

\* GET from the upstream fetch on: await fetch(...), if (!res.ok) ...,
\* await res.json(), NextResponse.json(data); no try/catch
ProxyRespond(up) ==
  IF up.kind = "reject" THEN Escaped
  ELSE IF ~ResOk(up.status)
    THEN NextResponseJson(JsonError("Failed to fetch icons"), up.status)
  ELSE IF ~JsonParse(up.body).ok THEN Escaped
  ELSE NextResponseJson(JsonParse(up.body).v, 200)

\* GET(req) up to its first await
ProxyGet(query, apiKey) ==
  /\ pPhase # "fetch"
  /\ pServed < MaxServed
  /\ pServed' = pServed + 1
  /\ pReq' = [q |-> query, key |-> apiKey]
  /\ pUp' = NoResponse
  /\ IF ProxyMissing(query, apiKey)
     THEN /\ pRes' = NextResponseJson(JsonError("Missing query or API key"), 400)
          /\ pPhase' = "done"
          /\ pCalls' = pCalls
     ELSE /\ pRes' = NoResponse
          /\ pPhase' = "fetch"
          /\ pCalls' = pCalls + 1
  /\ UNCHANGED <<stIds, stData, now, thrown, ev, fails, hookVars, searchVars,
                 favVars, fetchVars, tabVars, homeVars>>

\* the upstream fetch settles and GET runs to its end
ProxyUpstream(up) ==
  /\ pPhase = "fetch"
  /\ pUp' = up
  /\ pRes' = ProxyRespond(up)
  /\ pPhase' = "done"
  /\ UNCHANGED <<pReq, pCalls, pServed>>
  /\ UNCHANGED <<stIds, stData, now, thrown, ev, fails, hookVars, searchVars,
                 favVars, fetchVars, tabVars, homeVars>>

InitProxy ==
  /\ pPhase = "idle"
  /\ pReq = [q |-> Undefined, key |-> Undefined]
  /\ pUp = NoResponse
  /\ pRes = NoResponse
  /\ pCalls = 0
  /\ pServed = 0

\* ------------------------------------------------- search view: the fetch
\* the queries the page is opened with
SearchQueries == {Undefined, Str("cat"), Str("dog")}

\* what fetch('/api/icons?q=...') settles with
FetchStatuses == {200, 400, 500, 503}
FetchBodies == {"{}", "null", NotJson, JsonStringify(JsonError("Failed to fetch icons"))}
                 \cup {JsonStringify(JsonIcons(p)) : p \in Payloads}
FetchOutcomes ==
  {Rejected} \cup {[kind |-> "response", status |-> s, body |-> b] :
                     s \in FetchStatuses, b \in FetchBodies}

\* the catch leaving loading set
FetchCatchStillLoading(message) ==
  [failed |-> TRUE, error |-> Str(message), loading |-> TRUE, icons |-> <<>>]

\* .catch((err) => { setError(err.message); setLoading(false); })
FetchCatch(message) ==
  [failed |-> TRUE, error |-> Str(message), loading |-> FALSE, icons |-> <<>>]

\* the response dropped: nothing stored
FetchThenDropped(data) ==
  [failed |-> TRUE, error |-> Undefined, loading |-> FALSE, icons |-> <<>>]

\* .then((data) => { setIcons(data.icons || []); setLoading(false); })
FetchThen(data) ==
  IF ~data.obj THEN FetchCatch("Cannot read properties of null")
  ELSE [failed |-> FALSE, error |-> Undefined, loading |-> FALSE,
        icons |-> IF data.hasIcons THEN data.icons ELSE <<>>]

\* the promise chain of the fetch effect on outcome o
FetchHandle(o) ==
  IF o.kind = "reject" THEN FetchCatch("Failed to fetch")
  ELSE IF ~ResOk(o.status) THEN FetchCatch("Failed to fetch icons")
  ELSE IF ~JsonParse(o.body).ok THEN FetchCatch("Unexpected token")
  ELSE FetchThen(JsonParse(o.body).v)

\* the URL's q becomes query and the effect on [query] runs
SearchQuery(query) ==
  /\ sMounted
  /\ query # sQuery
  /\ sQuery' = query
  /\ IF Falsy(query)
     THEN UNCHANGED <<sLoading, sError, sInflight, sIssued>>
     ELSE /\ sIssued < MaxReq
          /\ sIssued' = sIssued + 1
          /\ sLoading' = TRUE
          /\ sError' = Undefined
          /\ sInflight' = sInflight \cup {[n |-> sIssued + 1, q |-> query.s]}
  /\ ev' = Called("search", "query", "", NoIcon, "none", "none")
  /\ UNCHANGED <<stIds, stData, now, thrown, fails, hookVars, searchVars, favVars,
                 sSettled, sResultsFor, proxyVars, tabVars, homeVars>>

\* the fetch of request r settles with outcome o and its callbacks run
FetchSettle(r, o) ==
  /\ sMounted
  /\ r \in sInflight
  /\ sInflight' = sInflight \ {r}
  /\ sSettled' = o
  /\ LET h == FetchHandle(o) IN
     /\ sLoading' = h.loading
     /\ sError' = IF h.failed THEN h.error ELSE sError
     /\ sNewIcons' = IF h.failed THEN sNewIcons ELSE [pending |-> TRUE, v |-> h.icons]
     /\ sResultsFor' = IF h.failed THEN sResultsFor ELSE r.q
  /\ ev' = Called("search", "settle", "", NoIcon, "none", "none")
  /\ UNCHANGED <<stIds, stData, now, thrown, fails, hookVars, favVars, sMounted,
                 sIsClient, sIcons, sFav, sFavIcons, sNextFav, sNextFavIcons, sPend,
                 sQuery, sIssued, proxyVars, tabVars, homeVars>>

InitFetch ==
  /\ sQuery = Undefined
  /\ sLoading = FALSE
  /\ sError = Undefined
  /\ sInflight = {}
  /\ sIssued = 0
  /\ sSettled = NoResponse
  /\ sResultsFor = ""

\* the page is left: its state is gone and so are the callbacks' targets
FetchUnmount ==
  /\ SearchUnmount
  /\ sQuery' = Undefined
  /\ sLoading' = FALSE
  /\ sError' = Undefined
  /\ sInflight' = {}
  /\ sSettled' = NoResponse
  /\ sResultsFor' = ""
  /\ UNCHANGED <<sIssued, proxyVars, tabVars, homeVars>>

\* ------------------------------------------------------- other contexts
InitTabs ==
  /\ fEvents = <<>>
  /\ gMounted = FALSE
  /\ gFav = <<>> /\ gIcons = <<>>

\* the storage events a step that changed the keys dispatches to the window
\* of the favorites view, open in another tab with its listener registered
Dispatched ==
  IF fMounted
  THEN fEvents \o (IF stIds' # stIds THEN <<"iconFavorites">> ELSE <<>>)
               \o (IF stData' # stData THEN <<"favoriteIconsData">> ELSE <<>>)
  ELSE fEvents
Dispatch ==
  /\ fEvents' = Dispatched
  /\ Len(fEvents') <= MaxEvents

\* the search view, open in the first tab, takes a step; here it shows the
\* results of one search and every click comes after the render of the one before
TabSearch ==
  /\ \/ SearchMount
     \/ \E payload \in Payloads :
          sIcons = <<>> /\ ~sNewIcons.pending /\ SearchReceive(payload)
     \/ \E i \in DOMAIN sIcons : SearchToggle(i)
     \/ SearchRender
  /\ sPend' = <<>>
  /\ Dispatch
  /\ UNCHANGED <<guestVars, fetchVars, proxyVars, homeVars>>

\* the favorites view is opened in a second tab: useEffect(() => { loadFavorites(); }, [])
\* and the storage listener registered
TabFavOpen ==
  /\ sMounted /\ ~fMounted
  /\ fMounted' = TRUE
  /\ fNextFav' = FavLoadFav(stIds, stData, fNextFav)
  /\ fNextIcons' = FavLoadIcons(stIds, stData, fNextIcons)
  /\ ev' = Called("fav", "load", "", NoIcon, "none", "none")
  /\ UNCHANGED <<stIds, stData, now, thrown, fails, fFav, fIcons, hookVars, searchVars,
                 fetchVars, proxyVars, tabVars, homeVars>>

\* the favorites view takes a step of its own; a window gets no storage event
\* for its own writes and the search view has no listener
TabFav ==
  /\ \/ \E i \in DOMAIN fIcons : FavRemoveClick(i)
     \/ FavRender
  /\ UNCHANGED <<fetchVars, proxyVars, tabVars, homeVars>>

\* handleStorageChange(e) for the oldest event waiting
FavStorage ==
  /\ fMounted
  /\ fEvents # <<>>
  /\ LET key == Head(fEvents)
         reload == key = "iconFavorites" \/ key = "favoriteIconsData"
     IN  /\ fNextFav' = IF reload THEN FavLoadFav(stIds, stData, fNextFav) ELSE fNextFav
         /\ fNextIcons' = IF reload THEN FavLoadIcons(stIds, stData, fNextIcons)
                          ELSE fNextIcons
         /\ ev' = Called("fav", "storage", key, NoIcon,
                         IF reload THEN "load" ELSE "none", "none")
  /\ fEvents' = Tail(fEvents)
  /\ UNCHANGED <<stIds, stData, now, thrown, fails, fMounted, fFav, fIcons, hookVars,
                 searchVars, fetchVars, proxyVars, guestVars, homeVars>>

\* the icons a third tab saves
OtherIcons == {IconSun}
\* a search view opened in a third tab loads the keys, toggles icon and saves
OtherTabToggle(icon) ==
  LET iconId == ToggleId(icon, now)
      u == [id |-> iconId, icon |-> ToggleIcon(icon, iconId),
            closure |-> SearchLoadIcons(stIds, stData, <<>>), isClient |-> TRUE]
      r == SearchUpdater(RunState(SearchLoadFav(stIds, <<>>), u.closure), u, "ok")
  IN  /\ sMounted
      /\ Len(r.fav) <= MaxFav
      /\ stIds' = r.ids
      /\ stData' = r.data
      /\ ev' = Called("other", "toggle", iconId, u.icon, r.did, "ok")
      /\ Dispatch
      /\ UNCHANGED <<now, thrown, fails, hookVars, searchVars, favVars, fetchVars,
                     proxyVars, guestVars, homeVars>>

\* a key of no concern to the favorites changes on the same origin
OtherKeyChange ==
  /\ fMounted
  /\ Len(fEvents) < MaxEvents
  /\ fEvents' = Append(fEvents, "theme")
  /\ UNCHANGED <<stIds, stData, now, thrown, ev, fails, hookVars, searchVars, favVars,
                 fetchVars, proxyVars, guestVars, homeVars>>

\* a second component calls useFavorites(): its own useState pair, filled by
\* its own load effect and rendered
GuestMount ==
  /\ ~gMounted
  /\ gMounted' = TRUE
  /\ gFav' = HookLoadFav(stIds, <<>>)
  /\ gIcons' = HookLoadIcons(stIds, stData, <<>>)
  /\ UNCHANGED <<stIds, stData, now, thrown, ev, fails, hookVars, searchVars, favVars,
                 fetchVars, proxyVars, fEvents, homeVars>>

GuestUnmount ==
  /\ gMounted
  /\ gMounted' = FALSE
  /\ gFav' = <<>> /\ gIcons' = <<>>
  /\ UNCHANGED <<stIds, stData, now, thrown, ev, fails, hookVars, searchVars, favVars,
                 fetchVars, proxyVars, fEvents, homeVars>>

\* ------------------------------------------------------------ landing page
\* text is a sequence of characters
Chars == {" ", "c"}
Texts == UNION {[1 .. n -> Chars] : n \in 0 .. MaxChars}
PopularSearches == {<<"h", "o", "m", "e">>}

RECURSIVE TrimStart(_)
TrimStart(s) == IF s # <<>> /\ Head(s) = " " THEN TrimStart(Tail(s)) ELSE s
RECURSIVE TrimEnd(_)
TrimEnd(s) ==
  IF s # <<>> /\ s[Len(s)] = " " THEN TrimEnd(SubSeq(s, 1, Len(s) - 1)) ELSE s
\* String.prototype.trim
Trim(s) == TrimEnd(TrimStart(s))

\* encodeURIComponent: a space is escaped, letters are kept
RECURSIVE EncodeURIComponent(_)
EncodeURIComponent(s) ==
  IF s = <<>> THEN <<>>
  ELSE (IF Head(s) = " " THEN <<"%", "2", "0">> ELSE <<Head(s)>>)
         \o EncodeURIComponent(Tail(s))
\* the decoding URLSearchParams does
RECURSIVE DecodeURIComponent(_)
DecodeURIComponent(s) ==
  IF s = <<>> THEN <<>>
  ELSE IF Len(s) >= 3 /\ SubSeq(s, 1, 3) = <<"%", "2", "0">>
       THEN <<" ">> \o DecodeURIComponent(SubSeq(s, 4, Len(s)))
       ELSE <<Head(s)>> \o DecodeURIComponent(Tail(s))
\* the string of a sequence of characters
RECURSIVE Text(_)
Text(s) == IF s = <<>> THEN "" ELSE Head(s) \o Text(Tail(s))

\* the location: the page, its q parameter as written in the URL, and what
\* navigated there
NoRoute == [page |-> "home", hasQ |-> FALSE, q |-> <<>>, by |-> "start"]
\* `/search?q=${encodeURIComponent(query)}`
SearchUrl(query, by) ==
  [page |-> "search", hasQ |-> TRUE, q |-> EncodeURIComponent(query), by |-> by]
\* searchParams.get('q')
SearchParamsGet(r) ==
  IF r.hasQ THEN Str(Text(DecodeURIComponent(r.q))) ELSE Undefined
\* locations typed in the address bar
Addresses ==
  {[NoRoute EXCEPT !.by = "address"],
   [page |-> "search", hasQ |-> FALSE, q |-> <<>>, by |-> "address"],
   [page |-> "search", hasQ |-> TRUE, q |-> <<>>, by |-> "address"],
   [page |-> "search", hasQ |-> TRUE, q |-> <<"c">>, by |-> "address"]}

InitHome ==
  /\ lQuery = <<>>
  /\ route = NoRoute

\* the test on the query as typed
HomeHasTextUntrimmed(query) == query # <<>>
\* if (query.trim())
HomeHasText(query) == Trim(query) # <<>>

HomeShown == route.page = "home" /\ ~sMounted

\* onChange={(e) => setQuery(e.target.value)}
HomeType(text) ==
  /\ HomeShown
  /\ text # lQuery
  /\ lQuery' = text
  /\ ev' = Called("home", "type", Text(text), NoIcon, "none", "none")
  /\ UNCHANGED <<stIds, stData, now, thrown, fails, hookVars, searchVars, favVars,
                 fetchVars, proxyVars, tabVars, route>>

\* handleSearch: the form is submitted
HomeSearch ==
  /\ HomeShown
  /\ IF HomeHasText(lQuery)
     THEN /\ route' = SearchUrl(lQuery, "handleSearch")
          /\ lQuery' = <<>>
     ELSE UNCHANGED homeVars
  /\ ev' = Called("home", "search", Text(lQuery), NoIcon,
                  IF HomeHasText(lQuery) THEN "pushed" ELSE "none", "none")
  /\ UNCHANGED <<stIds, stData, now, thrown, fails, hookVars, searchVars, favVars,
                 fetchVars, proxyVars, tabVars>>

\* handlePopularSearch
HomePopular(searchTerm) ==
  /\ HomeShown
  /\ route' = SearchUrl(searchTerm, "handlePopularSearch")
  /\ lQuery' = <<>>
  /\ ev' = Called("home", "popular", Text(searchTerm), NoIcon, "pushed", "none")
  /\ UNCHANGED <<stIds, stData, now, thrown, fails, hookVars, searchVars, favVars,
                 fetchVars, proxyVars, tabVars>>

\* handleGoToFavorites
HomeGoToFavorites ==
  /\ HomeShown
  /\ route' = [page |-> "favorites", hasQ |-> FALSE, q |-> <<>>,
               by |-> "handleGoToFavorites"]
  /\ lQuery' = <<>>
  /\ ev' = Called("home", "favorites", "", NoIcon, "pushed", "none")
  /\ UNCHANGED <<stIds, stData, now, thrown, fails, hookVars, searchVars, favVars,
                 fetchVars, proxyVars, tabVars>>

\* the user opens a location in the address bar
BrowserOpen(r) ==
  /\ r # route
  /\ route' = r
  /\ lQuery' = <<>>
  /\ UNCHANGED <<stIds, stData, now, thrown, ev, fails, hookVars, searchVars, favVars,
                 fetchVars, proxyVars, tabVars>>

\* the results page is on display: SearchContent mounts
SearchShown ==
  /\ route.page = "search"
  /\ SearchMount
  /\ UNCHANGED <<fetchVars, proxyVars, tabVars, homeVars>>

\* const query = searchParams.get('q'), and the effect on [query]
SearchEffect ==
  /\ route.page = "search"
  /\ SearchQuery(SearchParamsGet(route))

\* another page is on display: SearchContent unmounts
SearchLeave ==
  /\ route.page # "search"
  /\ FetchUnmount

\* -------------------------------------------------------------- the system
NoEvent == Called("", "", "", NoIcon, "none", "none")

InitComponents ==
  /\ now = 0
  /\ fails = 0
  /\ thrown = FALSE
  /\ ev = NoEvent
  /\ hMounted = FALSE
  /\ hFav = <<>> /\ hIcons = <<>> /\ hNextFav = <<>> /\ hNextIcons = <<>>
  /\ hPend = <<>>
  /\ sMounted = FALSE /\ sIsClient = FALSE
  /\ sIcons = <<>> /\ sNewIcons = NoNewIcons
  /\ sFav = <<>> /\ sFavIcons = <<>> /\ sNextFav = <<>> /\ sNextFavIcons = <<>>
  /\ sPend = <<>>
  /\ fMounted = FALSE
  /\ fFav = <<>> /\ fIcons = <<>> /\ fNextFav = <<>> /\ fNextIcons = <<>>
  /\ InitFetch
  /\ InitProxy
  /\ InitTabs
  /\ InitHome

\* a browser whose storage holds nothing yet
Init ==
  /\ stIds = Null
  /\ stData = Null
  /\ InitComponents

\* the identifiers removeFavorite of the hook is called with
HookIds == {"a", "0", "zz"}

HookNext ==
  /\ \/ HookMount
     \/ \E icon \in Catalog : HookAdd(icon)
     \/ \E iconId \in HookIds : HookRemove(iconId)
     \/ \E icon \in Catalog : HookToggle(icon)
     \/ HookRender
  /\ UNCHANGED <<fetchVars, proxyVars, tabVars, homeVars>>

SearchNext ==
  /\ \/ SearchMount
     \/ \E payload \in Payloads : SearchReceive(payload)
     \/ \E i \in DOMAIN sIcons : SearchToggle(i)
     \/ SearchRender
     \/ Tick
  /\ UNCHANGED <<fetchVars, proxyVars, tabVars, homeVars>>

FavNext ==
  /\ \/ FavMount
     \/ \E i \in DOMAIN fIcons : FavRemoveClick(i)
     \/ FavRender
  /\ UNCHANGED <<fetchVars, proxyVars, tabVars, homeVars>>

Navigate ==
  /\ \/ HookUnmount
     \/ SearchUnmount
     \/ FavUnmount
  /\ UNCHANGED <<fetchVars, proxyVars, tabVars, homeVars>>

Next == HookNext \/ SearchNext \/ FavNext \/ Navigate

\* one tab: the pages are mounted one at a time and share localStorage
Spec == Init /\ [][Next]_vars
\* a component using the hook, from an empty store
SpecHook == Init /\ [][HookNext]_vars
\* the search results view, from an empty store
SpecSearch == Init /\ [][SearchNext]_vars

\* what the two keys may hold when a page loads: nothing, arrays a page wrote
\* earlier, or a string that is not JSON
LoadIds == {Null, Malformed, Stringify(<<>>), Stringify(<<"a">>), Stringify(<<"a", "0">>)}
LoadData == {Null, Malformed, Stringify(<<>>), Stringify(<<IconSun>>),
             Stringify(<<IconSun, IconZero>>)}
InitLoad ==
  /\ stIds \in LoadIds
  /\ stData \in LoadData
  /\ InitComponents
LoadNext ==
  \/ (HookMount \/ HookRender) /\ UNCHANGED <<fetchVars, proxyVars, tabVars, homeVars>>
  \/ (SearchMount \/ SearchRender) /\ UNCHANGED <<fetchVars, proxyVars, tabVars, homeVars>>
  \/ (FavMount \/ FavRender) /\ UNCHANGED <<fetchVars, proxyVars, tabVars, homeVars>>
  \/ Navigate
\* a page loading over any content of the two keys
SpecLoad == InitLoad /\ [][LoadNext]_vars

\* the proxy route serving requests one after the other
ProxyNext ==
  \/ \E query \in Queries, apiKey \in ApiKeys : ProxyGet(query, apiKey)
  \/ \E up \in Upstreams : ProxyUpstream(up)
SpecProxy == Init /\ [][ProxyNext]_vars

\* the search view fetching: the query changes, the fetches settle in any order
FetchNext ==
  \/ SearchMount /\ UNCHANGED <<fetchVars, proxyVars, tabVars, homeVars>>
  \/ \E query \in SearchQueries : SearchQuery(query)
  \/ \E r \in sInflight : \E o \in FetchOutcomes : FetchSettle(r, o)
  \/ SearchRender /\ UNCHANGED <<fetchVars, proxyVars, tabVars, homeVars>>
  \/ FetchUnmount
\* every fetch settles: the promise resolves or rejects and its callbacks run
FetchFair ==
  \A n \in 1 .. MaxReq :
    WF_vars(\E r \in sInflight : \E o \in FetchOutcomes : r.n = n /\ FetchSettle(r, o))
SpecFetch == Init /\ [][FetchNext]_vars /\ FetchFair

\* two components of one page, each with its own useFavorites()
SharedNext ==
  \/ HookNext
  \/ GuestMount
  \/ GuestUnmount
SpecShared == Init /\ [][SharedNext]_vars

\* the search view in one tab, the favorites view in a second and a search
\* view in a third, all on the same localStorage
TabsNext ==
  \/ TabSearch
  \/ TabFavOpen
  \/ TabFav
  \/ FavStorage
  \/ \E icon \in OtherIcons : OtherTabToggle(icon)
  \/ OtherKeyChange
SpecTabs == Init /\ [][TabsNext]_vars

\* the landing page and the results page it navigates to
HomeNext ==
  \/ \E text \in Texts : HomeType(text)
  \/ HomeSearch
  \/ \E searchTerm \in PopularSearches : HomePopular(searchTerm)
  \/ HomeGoToFavorites
  \/ \E r \in Addresses : BrowserOpen(r)
  \/ SearchShown
  \/ SearchEffect
  \/ \E r \in sInflight : \E o \in FetchOutcomes : FetchSettle(r, o)
  \/ SearchRender /\ UNCHANGED <<fetchVars, proxyVars, tabVars, homeVars>>
  \/ SearchLeave
SpecHome == Init /\ [][HomeNext]_vars

\* ------------------------------------------------------------------ claims
\* The set and the list describe one collection: the same size, every
\* identifier of the set the id of exactly one record, every record's id in the set.
Lockstep(fav, icons) ==
  /\ Len(fav) = Len(icons)
  /\ \A k \in DOMAIN fav :
       Cardinality({i \in DOMAIN icons : FavIconId(icons[i]) = fav[k]}) = 1
  /\ \A i \in DOMAIN icons : Has(fav, FavIconId(icons[i]))

AllOk(q) == [k \in 1 .. Len(q) |-> "ok"]
\* what a render would commit for the hook, for the write outcomes ws
HookResolved(ws) == HookRun(HookState, hPend, ws)
Proj(r) == <<r.fav, r.icons, r.ids, r.data>>

\* C1: in the hook, from the empty store, the favorites set and the
\* favoriteIcons list stay in lockstep after every add, remove and toggle,
\* in the committed state and in the state the next render commits.
C1_HookLockstep ==
  /\ Lockstep(hFav, hIcons)
  /\ Lockstep(hNextFav, hNextIcons)
  /\ \A ws \in [1 .. Len(hPend) -> Outcomes] :
       Lockstep(HookResolved(ws).fav, HookResolved(ws).icons)

\* C1 witness: two records are stored and a removal has just been committed
C1_Witness ==
  /\ ev.who = "hook" /\ ev.did = "remove" /\ ev.phase = "render"
  /\ Len(hFav) = 1 /\ Len(hIcons) = 1

\* C3: a second addFavorite(x) right after addFavorite(x), with or without a
\* render in between, leaves the set, the list and both keys as the first
\* call leaves them, whatever the outcomes of the writes still to be made.
C3_AddIdempotent ==
  [][(/\ ev.who = "hook" /\ ev.op = "add"
      /\ ev'.who = "hook" /\ ev'.op = "add" /\ ev'.phase = "call"
      /\ ev'.icon = ev.icon)
     => /\ <<hFav', hIcons', hNextFav', hNextIcons'>> = <<hFav, hIcons, hNextFav, hNextIcons>>
        /\ \A ws \in [1 .. Len(hPend) -> Outcomes] :
             Proj(HookRun(HookState', hPend', ws \o AllOk(SubSeq(hPend', Len(hPend) + 1, Len(hPend')))))
               = Proj(HookResolved(ws))]_vars

\* C3 witness: addFavorite(x) was called for a stored x and the call before
\* it was addFavorite(x) too
C3_Witness ==
  /\ ev.who = "hook" /\ ev.op = "add" /\ ev.phase = "call" /\ ev.did = "none"
  /\ ev.id # "" /\ Has(hNextFav, ev.id) /\ Has(hFav, ev.id)
  /\ stIds = Stringify(hNextFav) /\ Len(hIcons) = 1

\* C6: after addFavorite(record) the store holds a record for it under its
\* identifier, for every record, also one without a native id.
C6_AddInserts ==
  (ev.who = "hook" /\ ev.op = "add")
    => LET r == HookResolved(AllOk(hPend)) IN
       /\ \E i \in DOMAIN r.icons : r.icons[i].name = ev.icon.name
       /\ Len(r.fav) = Len(r.icons)

\* C2: on the search view the committed set and list stay in lockstep after
\* every sequence of handleToggleFavorite calls, also two calls handled
\* before a render, and the keys as last written hold that collection.
C2_SearchLockstep ==
  /\ Lockstep(sFav, sFavIcons)
  /\ (ev.who = "search" /\ ev.w = "ok")
       => stIds = Stringify(sNextFav) /\ stData = Stringify(sNextFavIcons)

\* the state component who will commit at its next render, its queue empty
NextFavOf(who) ==
  CASE who = "hook" -> hNextFav [] who = "search" -> sNextFav [] OTHER -> fNextFav
NextIconsOf(who) ==
  CASE who = "hook" -> hNextIcons [] who = "search" -> sNextFavIcons
    [] OTHER -> fNextIcons
Stores == {"hook", "search", "fav"}

\* C4: after a mutating call whose writes succeeded the two keys hold the
\* in-memory set and list, and a load run next yields the same set and the
\* same list in the same order.
C4_RoundTrip ==
  (ev.who \in Stores /\ ev.w = "ok")
    => /\ stIds = Stringify(NextFavOf(ev.who))
       /\ stData = Stringify(NextIconsOf(ev.who))
       /\ HookLoadFav(stIds, <<>>) = NextFavOf(ev.who)
       /\ HookLoadIcons(stIds, stData, <<>>) = NextIconsOf(ev.who)
       /\ SearchLoadFav(stIds, <<>>) = NextFavOf(ev.who)
       /\ SearchLoadIcons(stIds, stData, <<>>) = NextIconsOf(ev.who)
       /\ FavLoadFav(stIds, stData, <<>>) = NextFavOf(ev.who)
       /\ FavLoadIcons(stIds, stData, <<>>) = NextIconsOf(ev.who)

\* C4 witness: a removal on the search view has been written, one record is left
C4_Witness ==
  /\ ev.who = "search" /\ ev.w = "ok" /\ ev.did = "remove"
  /\ Len(sNextFavIcons) = 1 /\ stData = Stringify(sNextFavIcons)

\* C5: a load that meets malformed JSON under either key leaves the set and
\* the list empty and throws nothing, in the hook and on both views.
C5_LoadMalformedEmpty ==
  (ev.who \in Stores /\ ev.op = "load" /\ (stIds = Malformed \/ stData = Malformed))
    => /\ ~thrown
       /\ NextFavOf(ev.who) = <<>>
       /\ NextIconsOf(ev.who) = <<>>

\* C7: removeFavorite with an identifier that is neither in the set nor in
\* the list changes neither the in-memory state nor the two keys, in the hook
\* and on the favorites view.
C7_RemoveAbsentNoop ==
  [][(/\ ev'.op = "remove" /\ ev'.phase = "call"
      /\ \/ /\ ev'.who = "hook"
            /\ ~Has(HookResolved(AllOk(hPend)).fav, ev'.id)
            /\ \A i \in DOMAIN HookResolved(AllOk(hPend)).icons :
                 FavIconId(HookResolved(AllOk(hPend)).icons[i]) # ev'.id
         \/ /\ ev'.who = "fav"
            /\ ~Has(fFav, ev'.id) /\ ~Has(fNextFav, ev'.id)
            /\ \A i \in DOMAIN fIcons : FavIconId(fIcons[i]) # ev'.id
            /\ \A i \in DOMAIN fNextIcons : FavIconId(fNextIcons[i]) # ev'.id)
     => /\ <<stIds', stData'>> = <<stIds, stData>>
        /\ <<fNextFav', fNextIcons'>> = <<fNextFav, fNextIcons>>
        /\ Proj(HookRun(HookState', hPend', AllOk(hPend'))) = Proj(HookResolved(AllOk(hPend)))]_vars

RemoveAt(seq, i) == SubSeq(seq, 1, i - 1) \o SubSeq(seq, i + 1, Len(seq))

\* C8: the remove button of a card of the favorites view deletes that card's
\* record from the list and its identifier from the set, keeps the others in
\* order, and persists both.
C8_FavRemoveExact ==
  [][(/\ ev'.who = "fav" /\ ev'.op = "remove" /\ ev'.phase = "call"
      /\ fNextFav = fFav /\ fNextIcons = fIcons)
     => \E i \in DOMAIN fIcons :
          /\ GetIconId(fIcons[i], i - 1) = ev'.id
          /\ fNextIcons' = RemoveAt(fIcons, i)
          /\ fNextFav' = SetDelete(fFav, FavIconId(fIcons[i]))
          /\ ev'.w = "ok" =>
                stIds' = Stringify(fNextFav') /\ stData' = Stringify(fNextIcons')]_vars

\* C9: the two keys always hold one collection: both absent, or the ids
\* array and the records array in lockstep.
C9_KeysTogether ==
  /\ stIds.k = stData.k
  /\ Lockstep(stIds.v, stData.v)

\* the in-memory state shows what the last call did
Reflects(fav, icons) ==
  IF ev.did = "add"
  THEN Has(fav, ev.id) /\ \E i \in DOMAIN icons : FavIconId(icons[i]) = ev.id
  ELSE ~Has(fav, ev.id) /\ \A i \in DOMAIN icons : FavIconId(icons[i]) # ev.id

\* C10: when a write of add, remove or toggle fails nothing is thrown and the
\* in-memory set and list show the mutation all the same.
C10_FailureKeepsMutation ==
  (ev.who \in Stores /\ ev.w \in {"fail1", "fail2"})
    => /\ ~thrown
       /\ ev.did \in {"add", "remove"}
       /\ Reflects(NextFavOf(ev.who), NextIconsOf(ev.who))

\* C10 witness: an add on the hook whose first write threw: the record is in
\* memory, the keys are still absent
C10_Witness ==
  /\ ev.who = "hook" /\ ev.w = "fail1" /\ ev.did = "add"
  /\ Has(hNextFav, ev.id) /\ stIds = Null /\ stData = Null

\* ------------------------------------------------------------------ toggle
Front(q) == SubSeq(q, 1, Len(q) - 1)
\* what a render would commit for the search view, for the write outcomes ws
SearchResolved(ws) == SearchRun(SearchState, sPend, ws)

\* the last call was a toggle that met its record absent from the store
ToggledAbsent ==
  /\ ev.op = "toggle" /\ ev.id # ""
  /\ IF ev.phase = "call" /\ ev.w = "queued"
     THEN \/ /\ ev.who = "hook"
             /\ ~Has(HookRun(HookState, Front(hPend), AllOk(Front(hPend))).fav, ev.id)
          \/ /\ ev.who = "search"
             /\ ~Has(SearchRun(SearchState, Front(sPend), AllOk(Front(sPend))).fav, ev.id)
     ELSE ev.who \in {"hook", "search"} /\ ev.did = "add"

\* the record of identifier id is in neither the set, the list nor the keys of r
AbsentIn(r, id) ==
  /\ ~Has(r.fav, id)
  /\ \A i \in DOMAIN r.icons : FavIconId(r.icons[i]) # id
  /\ ~Has(r.ids.v, id)
  /\ \A i \in DOMAIN r.data.v : FavIconId(r.data.v[i]) # id

\* C11: a record absent from the store that is toggled twice in a row, with
\* or without a render between the two calls, is absent again from the set,
\* the list and both keys, in the hook and on the search view (no write
\* having failed).
C11_ToggleTwiceAbsent ==
  [][(/\ ToggledAbsent
      /\ now' = now
      /\ ev'.who = ev.who /\ ev'.op = "toggle" /\ ev'.phase = "call"
      /\ ev'.icon = ev.icon
      /\ fails' = 0)
     => /\ ev.who = "hook" =>
             AbsentIn(HookRun(HookState', hPend', AllOk(hPend')), ev.id)
        /\ ev.who = "search" =>
             AbsentIn(SearchRun(SearchState', sPend', AllOk(sPend')), ev.id)]_vars

\* the card carries an id that handleToggleFavorite generated for it
Generated(icon) ==
  \E c \in Catalog : \E t \in 0 .. MaxNow :
    Falsy(IdToString(c)) /\ icon = ToggleIcon(c, ToggleId(c, t))

\* the record of icon, under any identifier generated for it, is in the set or
\* the list of r
StillThere(r, icon) ==
  \/ \E i \in DOMAIN r.icons : r.icons[i].name = icon.name
  \/ \E k \in DOMAIN r.fav : \E t \in 0 .. MaxNow :
       r.fav[k] = ToggleId([icon EXCEPT !.id = NoId], t)

\* a second handleToggleFavorite in a row on a card without native id that
\* was absent from the store
SecondToggleGenerated ==
  /\ ToggledAbsent /\ ev.who = "search" /\ Generated(ev.icon)
  /\ now' = now
  /\ ev'.who = "search" /\ ev'.op = "toggle" /\ ev'.phase = "call"
  /\ ev'.icon = ev.icon

\* C12 as stated: on the search view the second of two toggles in a row of a
\* record without native id leaves the record, or an identifier for it, in
\* the set or the list.
C12_TimestampNotInvolutive ==
  [][SecondToggleGenerated
     => StillThere(SearchRun(SearchState', sPend', AllOk(sPend')), ev.icon)]_vars

\* C12 amended: the first toggle stores the generated identifier on the card,
\* so the second toggle of that card resolves to the same identifier, whatever
\* Date.now() has become, and leaves neither the identifier in the set nor a
\* record of it in the list.
C12_SameCardInvolutive ==
  [][SecondToggleGenerated
     => /\ ev'.id = ev.id
        /\ LET r == SearchRun(SearchState', sPend', AllOk(sPend')) IN
           /\ ~Has(r.fav, ev.id)
           /\ \A i \in DOMAIN r.icons : FavIconId(r.icons[i]) # ev.id]_vars

\* C12 witness: the card without native id was toggled at time 0 and again at
\* time 1, and the second toggle removed it under the identifier of time 0
C12_Witness ==
  /\ ev.who = "search" /\ ev.op = "toggle" /\ ev.did = "remove"
  /\ Generated(ev.icon) /\ ev.id = ToggleId(IconCat, 0) /\ now = 1
  /\ ~Has(sNextFav, ev.id) /\ sNextFavIcons = <<>>

\* ---------------------------------------------------------------- resolver
\* C13: for every card on display that carries a native id, 0 and '' included,
\* getIconId on either view and handleToggleFavorite resolve it to the string
\* form of that id, and so do addFavorite and toggleFavorite of the hook.
C13_ResolverNativeId ==
  /\ \A i \in DOMAIN sIcons :
       sIcons[i].id.t # "none" =>
         /\ GetIconId(sIcons[i], i - 1) = IdToString(sIcons[i]).s
         /\ ToggleId(sIcons[i], now) = IdToString(sIcons[i]).s
  /\ \A i \in DOMAIN fIcons :
       fIcons[i].id.t # "none" =>
         GetIconId(fIcons[i], i - 1) = IdToString(fIcons[i]).s
  /\ (ev.who = "hook" /\ ev.op \in {"add", "toggle"} /\ ev.icon.id.t # "none")
       => ev.id = IdToString(ev.icon).s

\* C14: for every card on display, at its position, the identifier of the
\* rendering (getIconId), of the mutation (handleToggleFavorite) and of the
\* removal filter are one and the same, also without a native id.
C14_ResolverStable ==
  /\ \A i \in DOMAIN sIcons :
       /\ GetIconId(sIcons[i], i - 1) = ToggleId(sIcons[i], now)
       /\ ToggleId(sIcons[i], now) = FavIconId(sIcons[i])
  /\ \A i \in DOMAIN fIcons :
       GetIconId(fIcons[i], i - 1) = FavIconId(fIcons[i])

\* ------------------------------------------------------- contains and count
\* the step is a render of the component using the hook
HookRenders == ev.phase = "call" /\ ev'.who = "hook" /\ ev'.phase = "render"

C16_ToggleRemoves ==
  [][(/\ now' = now
      /\ ev'.op = "toggle" /\ ev'.phase = "call" /\ ev'.id # ""
      /\ fails' = 0)
     => /\ (ev'.who = "hook" /\ Has(HookResolved(AllOk(hPend)).fav, ev'.id))
          => LET r == HookRun(HookState', hPend', AllOk(hPend')) IN
             /\ AbsentIn(r, ev'.id)
             /\ Len(r.fav) = Len(HookResolved(AllOk(hPend)).fav) - 1
        /\ (ev'.who = "search" /\ Has(SearchResolved(AllOk(sPend)).fav, ev'.id))
          => LET r == SearchRun(SearchState', sPend', AllOk(sPend')) IN
             /\ AbsentIn(r, ev'.id)
             /\ Len(r.fav) = Len(SearchResolved(AllOk(sPend)).fav) - 1]_vars

\* ------------------------------------------------------------- proxy route
\* the request handled last failed: no query, no credential, the upstream
\* request rejected, answered with a non-success status or with a body that
\* is not JSON
ProxyFailed ==
  \/ Falsy(pReq.q) \/ Falsy(pReq.key)
  \/ pUp.kind = "reject"
  \/ pUp.kind = "response" /\ (pUp.status \notin 200 .. 299 \/ ~JsonParse(pUp.body).ok)

\* C17: every failure of GET ends in a JSON error payload with a 4xx or 5xx
\* status, and no exception leaves the handler.
C17_FailureIsJsonError ==
  pPhase = "done"
    => /\ pRes.kind # "throw"
       /\ ProxyFailed
            => /\ pRes.kind = "json"
               /\ pRes.status \in 400 .. 599
               /\ JsonParse(pRes.body).ok /\ JsonParse(pRes.body).v.error # ""

\* C18: a request without q, with an empty q, or handled without a configured
\* credential is answered 400 {error: 'Missing query or API key'} and no
\* upstream request is issued for it.
C18_MissingIs400 ==
  [][(pServed' = pServed + 1 /\ (Falsy(pReq'.q) \/ Falsy(pReq'.key)))
     => /\ pPhase' = "done"
        /\ pRes' = [kind |-> "json", status |-> 400,
                    body |-> "{\"error\":\"Missing query or API key\"}"]
        /\ pCalls' = pCalls]_vars

\* C18 witness: a query with no credential configured was answered 400, no
\* upstream request made
C18_Witness ==
  /\ pPhase = "done" /\ pReq.q = Str("cat") /\ pReq.key = Undefined
  /\ pRes.status = 400 /\ pCalls = 0

\* C19: with query and credential, an upstream response of non-success
\* status s is answered with status s and {error: 'Failed to fetch icons'},
\* and a successful upstream response is answered with the same JSON value.
C19_RelaysUpstream ==
  (pPhase = "done" /\ pUp.kind = "response")
    => /\ pUp.status \notin 200 .. 299
            => pRes = [kind |-> "json", status |-> pUp.status,
                       body |-> "{\"error\":\"Failed to fetch icons\"}"]
       /\ (pUp.status \in 200 .. 299 /\ JsonParse(pUp.body).ok)
            => /\ pRes.kind = "json"
               /\ JsonParse(pRes.body) = JsonParse(pUp.body)

\* C19 witness: the upstream answered 503 and the proxy answered 503
C19_Witness ==
  /\ pPhase = "done" /\ pUp.kind = "response" /\ pUp.status = 503
  /\ pRes.status = 503 /\ pCalls = 1

\* ------------------------------------------------- search view: the fetch
InFlight(n) == \E r \in sInflight : r.n = n

C21_StaleResponseShown ==
  [][(\E r \in sInflight :
         /\ sMounted' /\ sInflight' = sInflight \ {r}
         /\ r.n < sIssued /\ ~InFlight(sIssued)
         /\ sQuery # Str(r.q)
         /\ sSettled'.kind = "response" /\ sSettled'.status \in 200 .. 299
         /\ JsonParse(sSettled'.body).ok /\ JsonParse(sSettled'.body).v.obj)
     => /\ sNewIcons'.pending
        /\ sNewIcons'.v = JsonParse(sSettled'.body).v.icons
        /\ sResultsFor' # "" /\ sQuery' # Str(sResultsFor')
        /\ \E r \in sInflight : r \notin sInflight' /\ sResultsFor' = r.q]_vars

\* C21 witness: cat was asked, then dog; dog's response came first, cat's
\* after it: the icons stored last are cat's, the query is dog
C21_Witness ==
  /\ sMounted /\ sIssued = 2 /\ sInflight = {}
  /\ sQuery = Str("dog") /\ sResultsFor = "cat" /\ sNewIcons.pending
  /\ sSettled.kind = "response" /\ sSettled.status = 200

\* C27: loading is true while the request of the current query is in flight
\* and no error is shown for it, whatever older requests settle meanwhile, and
\* false when nothing is in flight.
C27_LoadingTracksCurrent ==
  sMounted =>
    /\ (\E r \in sInflight : r.n = sIssued /\ sQuery = Str(r.q))
         => sLoading /\ sError = Undefined
    /\ sInflight = {} => ~sLoading

\* C24: an empty query starts no search: handleSearch has never navigated
\* with a query that is empty once trimmed, and when the results view's q
\* becomes missing or empty no request is issued and icons, loading and error
\* stay as they were.
C24_EmptyQueryIgnored ==
  /\ [](route.by = "handleSearch"
          => /\ route.page = "search" /\ route.hasQ
             /\ Trim(DecodeURIComponent(route.q)) # <<>>
             /\ ~Falsy(SearchParamsGet(route)))
  /\ [][(ev' # ev /\ ev'.who = "home" /\ ev'.op = "search" /\ ev'.did = "none")
          => UNCHANGED <<route, fetchVars, searchVars>>]_vars
  /\ [][(sMounted /\ sMounted' /\ sQuery' # sQuery /\ Falsy(sQuery'))
          => UNCHANGED <<sInflight, sIssued, sLoading, sError, sNewIcons, sIcons,
                         sSettled, sResultsFor>>]_vars

\* C24 witness: the form was submitted with blanks only and the landing page
\* is still on display, no request ever issued
C24_Witness ==
  /\ ev.who = "home" /\ ev.op = "search" /\ ev.did = "none" /\ ev.id = "  "
  /\ lQuery = <<" ", " ">> /\ route.page = "home"
  /\ sIssued = 0 /\ sInflight = {}

\* C25: no removal is lost on the favorites view: when removeFavorite(b)
\* follows removeFavorite(a) for two different identifiers, b a stored one,
\* with or without a render between the two calls and both writes
\* succeeding, neither a nor b is left in the set, the list or the two keys.
C25_NoLostRemoval ==
  [][(/\ ev.who = "fav" /\ ev.op = "remove" /\ ev.w = "ok"
      /\ ev'.who = "fav" /\ ev'.op = "remove" /\ ev'.phase = "call" /\ ev'.w = "ok"
      /\ ev'.id # ev.id
      /\ Has(fFav, ev'.id) /\ Has(stIds.v, ev'.id))
     => LET after == [fav |-> fNextFav', icons |-> fNextIcons',
                      ids |-> stIds', data |-> stData']
        IN  AbsentIn(after, ev.id) /\ AbsentIn(after, ev'.id)]_vars

\* ------------------------------------------------------------- indicator
\* the card came without native id: it has none, or the one generated for it
NoNativeId(icon) == icon.id.t = "none" \/ Generated(icon)
\* two records of one logical icon
SameIcon(a, b) == a.name = b.name /\ a.tags = b.tags

\* C28: on the rendered search view the favorite indicator of every card
\* without native id agrees with the list: isFavorite(getIconId(icon, index))
\* exactly when a record of that icon is in favoriteIcons, also after the
\* results were fetched again.
C28_IndicatorAgrees ==
  (sMounted /\ SearchIdle) =>
    \A i \in DOMAIN sIcons :
      NoNativeId(sIcons[i]) =>
        (SearchIsFavorite(GetIconId(sIcons[i], i - 1))
           <=> \E k \in DOMAIN sFavIcons : SameIcon(sFavIcons[k], sIcons[i]))

\* C29: an icon without native id has at most one record in favoriteIcons and
\* at most one identifier in favorites, in whichever renders it was toggled.
C29_NoDuplicateFavorite ==
  \A c \in Catalog :
    c.id.t = "none" =>
      /\ Cardinality({k \in DOMAIN sFavIcons : SameIcon(sFavIcons[k], c)}) <= 1
      /\ Cardinality({k \in DOMAIN sFav :
                        \E t \in 0 .. MaxNow : sFav[k] = ToggleId(c, t)}) <= 1

\* ------------------------------------------------------------ shared state
Elements(seq) == {seq[k] : k \in DOMAIN seq}

\* C23: two components using the hook see one state: once the component that
\* added or removed a favorite has rendered, the other component's favorites
\* and favoriteIcons hold the same identifiers and records.
C23_HookStateShared ==
  (hMounted /\ gMounted /\ HookIdle) =>
    /\ Elements(gFav) = Elements(hFav)
    /\ Elements(gIcons) = Elements(hIcons)

\* -------------------------------------------------------------------- tabs
\* C22: once the favorites view has handled a storage event for iconFavorites
\* or favoriteIconsData, its set and list are those of the two keys, and they
\* stay so until a tab writes again; an event for any other key leaves its
\* state as it was.
C22_StorageEventReloads ==
  /\ []((fMounted /\ ev.who = "fav" /\ ev.op = "storage" /\ ev.did = "load")
          => /\ fNextFav = NewSet(stIds.v)
             /\ fNextIcons = stData.v)
  /\ [][(fMounted /\ fEvents # <<>> /\ fEvents' = Tail(fEvents)
           /\ Head(fEvents) \notin {"iconFavorites", "favoriteIconsData"})
          => UNCHANGED <<favVars, stIds, stData>>]_vars

\* C22 witness: the third tab saved a favorite while the favorites view was
\* open with an empty list; the view handled both events and holds the favorite
C22_Witness ==
  /\ fMounted /\ fEvents = <<>>
  /\ ev.who = "fav" /\ ev.op = "storage" /\ ev.did = "load"
  /\ stIds.v = <<"a">> /\ fNextFav = <<"a">> /\ fNextIcons = <<IconSun>>
  /\ fFav = <<>>

\* C26: a toggle on the search view never erases from the two keys a
\* favorite of another icon that another tab saved after the search view had
\* loaded its state.
C26_NoLostUpdate ==
  [][(ev'.who = "search" /\ ev'.op = "toggle" /\ ev' # ev)
     => \A k \in DOMAIN stIds.v :
          (/\ ~Has(sFav, stIds.v[k]) /\ ~Has(sNextFav, stIds.v[k])
           /\ stIds.v[k] # ev'.id)
            => /\ Has(stIds'.v, stIds.v[k])
               /\ \E i \in DOMAIN stData'.v : FavIconId(stData'.v[i]) = stIds.v[k]]_vars
====
